---- MODULE Spec2Model ----
(***************************************************************************)
(* Model of the UserDefinedMetadata sensor resource                        *)
(* (src/src/models/user_defined_metadata.py).                              *)
(*                                                                         *)
(* One resource instance serves calls of get_readings, do_command and      *)
(* get_geometries.  The calls are asyncio coroutines: a coroutine runs     *)
(* without interruption from one suspension point to the next, and the     *)
(* only suspension points of the code are the awaited remote operations    *)
(* (ViamClient.create_from_dial_options, get_robot_metadata,               *)
(* get_robot_part_metadata, update_robot_metadata,                         *)
(* update_robot_part_metadata).  Each action below is therefore one such   *)
(* uninterrupted run: the start of a call up to its first suspension (or   *)
(* its return), or the resumption of a suspended call up to the next       *)
(* suspension (or its return).  The remote service is opaque: every        *)
(* awaited operation either returns or raises, chosen nondeterministically.*)
(***************************************************************************)
EXTENDS Naturals, Sequences, FiniteSets

\* Number of coroutines that may be running calls on the instance at once.
NumTasks == 2

Tasks == 1..NumTasks

-----------------------------------------------------------------------------
(* Python values.  Every value is a record of its type and its str() form. *)

PyNone == [type |-> "NoneType", val |-> "None"]

Str(s) == [type |-> "str", val |-> s]

Dict(s) == [type |-> "dict", val |-> s]

\* Marks a key that a mapping does not hold (not a Python value).
Absent == [type |-> "absent", val |-> ""]

\* Python truthiness, as used by `not x`.
Truthy(v) ==
    /\ v.type # "NoneType"
    /\ ~(v.type = "str" /\ v.val = "")
    /\ ~(v.type = "dict" /\ v.val = "{}")

\* isinstance(v, dict)
IsDict(v) == v.type = "dict"

-----------------------------------------------------------------------------
(* The process environment. *)

EnvNames == {"VIAM_API_KEY", "VIAM_API_KEY_ID", "VIAM_MACHINE_ID", "VIAM_MACHINE_PART_ID"}

\* The values a variable is given in the model: unset, empty, or a value.
EnvValues(n) ==
    CASE n = "VIAM_API_KEY"         -> {Absent, Str(""), Str("key")}
      [] n = "VIAM_API_KEY_ID"      -> {Absent, Str("key-id")}
      [] n = "VIAM_MACHINE_ID"      -> {Absent, Str(""), Str("machine-1")}
      [] n = "VIAM_MACHINE_PART_ID" -> {Absent, Str("part-1")}

\* os.getenv(name): the value, or None when the variable is unset.
getenv(e, n) == IF e[n] = Absent THEN PyNone ELSE e[n]

-----------------------------------------------------------------------------
(* Arguments of do_command. *)

CommandNames == {Str("update"), Str("delete"), Absent}

Scopes == {Str("part"), Str("robot"), Str("machine"), Absent}

Metadatas == {Dict("{'a': 1}"), Dict("{}"), Str("text")}

\* A command that is a dict, with the three keys the code reads.
DictCommands ==
    [type : {"dict"}, command : CommandNames, scope : Scopes, metadata : Metadatas]

\* A command that is not a dict: a list, a string, None.
NonDictCommands ==
    [type : {"list", "str", "NoneType"}, command : {Absent}, scope : {Absent},
     metadata : {Absent}]

Commands == DictCommands \cup NonDictCommands

\* command.get(key): None when the key is absent.
Get(command, key) == IF command[key] = Absent THEN PyNone ELSE command[key]

\* command.get(key, default)
GetDefault(command, key, default) ==
    IF command[key] = Absent THEN default ELSE command[key]

\* Documents the remote service may return from a fetch.
Docs == {Dict("{}"), Dict("{'a': 1}")}

-----------------------------------------------------------------------------
VARIABLES
    env,            \* os.environ
    viam_client,    \* self._viam_client: 0 is None, n > 0 the n-th connection
    established,    \* number of connections create_from_dial_options returned
    pc,             \* per task: where the call is suspended
    op,             \* per task: the method called
    command,        \* per task: do_command's argument
    configured,     \* per task: the machine and part ids of the environment when the call started
    locals,         \* per task: robot_id, robot_part_id, viam_client, robot_metadata
    issued,         \* per task: the call's credential reads, log lines and remote
                    \* operations, each remote operation followed by its outcome
    ret,            \* per task: how the call ended
    failed          \* history: some client acquisition on the instance has failed

vars == <<env, viam_client, established, pc, op, command, configured, locals, issued, ret, failed>>

NoCommand == [type |-> "none", command |-> Absent, scope |-> Absent, metadata |-> Absent]

NoLocals == [robot_id |-> PyNone, robot_part_id |-> PyNone, viam_client |-> 0,
             robot_metadata |-> PyNone]

NoRet == [kind |-> "none"]

\* The value of configured[t] while task t runs no call.
NoIds == [machine |-> Absent, part |-> Absent]

\* One entry of `issued`.
Event(method, a1, a2) == [method |-> method, a1 |-> a1, a2 |-> a2]

Envs == {e \in [EnvNames -> UNION {EnvValues(n) : n \in EnvNames}] :
            \A n \in EnvNames : e[n] \in EnvValues(n)}

\* __init__: the client handle starts unset.
Init ==
    /\ env \in Envs
    /\ viam_client = 0
    /\ established = 0
    /\ pc = [t \in Tasks |-> "idle"]
    /\ op = [t \in Tasks |-> "none"]
    /\ command = [t \in Tasks |-> NoCommand]
    /\ configured = [t \in Tasks |-> NoIds]
    /\ locals = [t \in Tasks |-> NoLocals]
    /\ issued = [t \in Tasks |-> <<>>]
    /\ ret = [t \in Tasks |-> NoRet]
    /\ failed = FALSE

-----------------------------------------------------------------------------
(* The code of the calls, one operator per uninterrupted run.  Each yields *)
(* the task's next pc, return, issued operations and locals.               *)

Step(p, r, i, l) == [pc |-> p, ret |-> r, issued |-> i, locals |-> l]

Return(v) == [kind |-> "return", value |-> v]

Raise(exc) == [kind |-> "raise", exc |-> exc]

\* GetViamClient without the `is None` test: every call resolves the
\* credentials and connects.
GetViamClientNoMemo(vc, e) ==
    LET api_key == getenv(e, "VIAM_API_KEY")
        api_key_id == getenv(e, "VIAM_API_KEY_ID")
        reads == << Event("os.getenv", Str("VIAM_API_KEY"), Absent),
                    Event("os.getenv", Str("VIAM_API_KEY_ID"), Absent) >>
    IN  IF ~Truthy(api_key) \/ ~Truthy(api_key_id)
        THEN [outcome |-> "raise", client |-> 0, events |-> reads,
              error |-> <<"VIAM_API_KEY and VIAM_API_KEY_ID environment variables must be set">>]
        ELSE [outcome |-> "await", client |-> 0,
              events |-> Append(reads, Event("create_from_dial_options", api_key, api_key_id)),
              error |-> <<>>]

\* _get_viam_client up to its suspension: the memoized client, a ValueError,
\* or the start of create_from_dial_options.
GetViamClient(vc, e) ==
    IF vc # 0
    THEN [outcome |-> "return", client |-> vc, events |-> <<>>, error |-> <<>>]
    ELSE LET api_key == getenv(e, "VIAM_API_KEY")
             api_key_id == getenv(e, "VIAM_API_KEY_ID")
             reads == << Event("os.getenv", Str("VIAM_API_KEY"), Absent),
                         Event("os.getenv", Str("VIAM_API_KEY_ID"), Absent) >>
         IN  IF ~Truthy(api_key) \/ ~Truthy(api_key_id)
             THEN [outcome |-> "raise", client |-> 0, events |-> reads,
                   error |-> <<"VIAM_API_KEY and VIAM_API_KEY_ID environment variables must be set">>]
             ELSE [outcome |-> "await", client |-> 0,
                   events |-> Append(reads, Event("create_from_dial_options", api_key, api_key_id)),
                   error |-> <<>>]

\* ReadingsExcept keeping the robot metadata already fetched.
ReadingsExceptPartial(i, l) ==
    Step("done",
         Return([robot |-> IF l.robot_metadata = PyNone THEN Dict("{}") ELSE l.robot_metadata,
                 part |-> Dict("{}")]),
         Append(i, Event("logger.error", Absent, Absent)), l)

\* get_readings' except clause: log, return empty metadata.
ReadingsExcept(i, l) ==
    Step("done", Return([robot |-> Dict("{}"), part |-> Dict("{}")]),
         Append(i, Event("logger.error", Absent, Absent)), l)

\* ReadingsWithClient starting both fetches together.
ReadingsWithClientGather(i, l, c) ==
    Step("await_robot", NoRet,
         i \o << Event("get_robot_metadata", l.robot_id, Absent),
                 Event("get_robot_part_metadata", l.robot_part_id, Absent) >>,
         [l EXCEPT !.viam_client = c])

\* get_readings once it holds the client c: start the robot metadata fetch.
ReadingsWithClient(i, l, c) ==
    Step("await_robot", NoRet,
         Append(i, Event("get_robot_metadata", l.robot_id, Absent)),
         [l EXCEPT !.viam_client = c])

\* get_readings from its entry to its first suspension.
ReadingsStart(vc, e) ==
    LET robot_id == getenv(e, "VIAM_MACHINE_ID")
        robot_part_id == getenv(e, "VIAM_MACHINE_PART_ID")
        l == [NoLocals EXCEPT !.robot_id = robot_id, !.robot_part_id = robot_part_id]
        g == GetViamClient(vc, e)
    IN  IF ~Truthy(robot_id) THEN ReadingsExcept(<<>>, l)
        ELSE IF ~Truthy(robot_part_id) THEN ReadingsExcept(<<>>, l)
        ELSE IF g.outcome = "raise" THEN ReadingsExcept(g.events, l)
        ELSE IF g.outcome = "await" THEN Step("await_connect", NoRet, g.events, l)
        ELSE ReadingsWithClient(g.events, l, g.client)

\* get_readings resumed with the robot metadata: start the part metadata fetch.
ReadingsRobotFetched(i, l, doc) ==
    Step("await_part", NoRet,
         Append(i, Event("get_robot_part_metadata", l.robot_part_id, Absent)),
         [l EXCEPT !.robot_metadata = doc])

\* get_readings resumed with the part metadata: return both.
ReadingsPartFetched(i, l, doc) ==
    Step("done", Return([robot |-> l.robot_metadata, part |-> doc]), i, l)

\* Validate reading the environment before looking at the command's keys.
ValidateEnvFirst(cmd, e) ==
    IF ~IsDict(cmd) THEN <<"Command must be a dictionary">>
    ELSE IF ~Truthy(getenv(e, "VIAM_MACHINE_ID"))
    THEN <<"VIAM_MACHINE_ID environment variable is required">>
    ELSE IF ~Truthy(getenv(e, "VIAM_MACHINE_PART_ID"))
    THEN <<"VIAM_MACHINE_PART_ID environment variable is required">>
    ELSE IF Get(cmd, "command") # Str("update")
    THEN <<"Unsupported command: ", Get(cmd, "command").val, ". Only 'update' is supported.">>
    ELSE IF Get(cmd, "scope") \notin {Str("part"), Str("robot")}
    THEN <<"Invalid scope: ", Get(cmd, "scope").val, ". Must be 'part' or 'robot'.">>
    ELSE IF ~IsDict(Get(cmd, "metadata")) THEN <<"metadata must be a dictionary">>
    ELSE <<>>

\* The first failed validation of do_command, as the ValueError's text
\* (<<>> when the command and the environment pass).
Validate(cmd, e) ==
    IF ~IsDict(cmd) THEN <<"Command must be a dictionary">>
    ELSE IF Get(cmd, "command") # Str("update")
    THEN <<"Unsupported command: ", Get(cmd, "command").val, ". Only 'update' is supported.">>
    ELSE IF Get(cmd, "scope") \notin {Str("part"), Str("robot")}
    THEN <<"Invalid scope: ", Get(cmd, "scope").val, ". Must be 'part' or 'robot'.">>
    ELSE IF ~IsDict(Get(cmd, "metadata")) THEN <<"metadata must be a dictionary">>
    ELSE IF ~Truthy(getenv(e, "VIAM_MACHINE_ID"))
    THEN <<"VIAM_MACHINE_ID environment variable is required">>
    ELSE IF ~Truthy(getenv(e, "VIAM_MACHINE_PART_ID"))
    THEN <<"VIAM_MACHINE_PART_ID environment variable is required">>
    ELSE <<>>

\* do_command's except clause: log, then build the failure result with
\* command.get, which only a dict has.
CommandExcept(cmd, error, i, l) ==
    LET logged == Append(i, Event("logger.error", Absent, Absent))
    IN  IF IsDict(cmd)
        THEN Step("done",
                  Return([success |-> FALSE,
                          error |-> <<"Error updating metadata: ">> \o error,
                          scope |-> GetDefault(cmd, "scope", Str("unknown")),
                          command |-> GetDefault(cmd, "command", Str("unknown"))]),
                  logged, l)
        ELSE Step("done", Raise("AttributeError"), logged, l)

\* CommandWithClient updating the part with the machine's id.
CommandWithClientWrongId(cmd, i, l, c) ==
    LET scope == Get(cmd, "scope")
        metadata == Get(cmd, "metadata")
        lc == [l EXCEPT !.viam_client = c]
    IN  IF scope = Str("robot")
        THEN Step("await_update", NoRet,
                  Append(i, Event("update_robot_metadata", l.robot_id, metadata)), lc)
        ELSE Step("await_update", NoRet,
                  Append(i, Event("update_robot_part_metadata", l.robot_id, metadata)), lc)

\* do_command once it holds the client c: start the update for the scope.
CommandWithClient(cmd, i, l, c) ==
    LET scope == Get(cmd, "scope")
        metadata == Get(cmd, "metadata")
        lc == [l EXCEPT !.viam_client = c]
    IN  IF scope = Str("robot")
        THEN Step("await_update", NoRet,
                  Append(i, Event("update_robot_metadata", l.robot_id, metadata)), lc)
        ELSE Step("await_update", NoRet,
                  Append(i, Event("update_robot_part_metadata", l.robot_part_id, metadata)), lc)

\* CommandStart getting the client before it validates the command.
CommandStartEager(cmd, vc, e) ==
    LET error == Validate(cmd, e)
        l == [NoLocals EXCEPT !.robot_id = getenv(e, "VIAM_MACHINE_ID"),
                              !.robot_part_id = getenv(e, "VIAM_MACHINE_PART_ID")]
        g == GetViamClient(vc, e)
    IN  IF g.outcome = "raise" THEN CommandExcept(cmd, g.error, g.events, l)
        ELSE IF error # <<>> THEN CommandExcept(cmd, error, g.events, l)
        ELSE IF g.outcome = "await" THEN Step("await_connect", NoRet, g.events, l)
        ELSE CommandWithClient(cmd, g.events, l, g.client)

\* do_command from its entry to its first suspension.
CommandStart(cmd, vc, e) ==
    LET error == Validate(cmd, e)
        l == IF IsDict(cmd) /\ Get(cmd, "command") = Str("update")
                  /\ Get(cmd, "scope") \in {Str("part"), Str("robot")}
                  /\ IsDict(Get(cmd, "metadata"))
             THEN [NoLocals EXCEPT !.robot_id = getenv(e, "VIAM_MACHINE_ID"),
                                   !.robot_part_id = getenv(e, "VIAM_MACHINE_PART_ID")]
             ELSE NoLocals
        g == GetViamClient(vc, e)
    IN  IF error # <<>> THEN CommandExcept(cmd, error, <<>>, l)
        ELSE IF g.outcome = "raise" THEN CommandExcept(cmd, g.error, g.events, l)
        ELSE IF g.outcome = "await" THEN Step("await_connect", NoRet, g.events, l)
        ELSE CommandWithClient(cmd, g.events, l, g.client)

\* do_command resumed after the update: log and return the success result.
CommandUpdated(cmd, i, l) ==
    LET logged == Append(i, Event("logger.info", Absent, Absent))
    IN  IF Get(cmd, "scope") = Str("robot")
        THEN Step("done",
                  Return([success |-> TRUE,
                          message |-> "Robot metadata updated successfully",
                          scope |-> Str("robot"),
                          robot_id |-> l.robot_id]),
                  logged, l)
        ELSE Step("done",
                  Return([success |-> TRUE,
                          message |-> "Robot part metadata updated successfully",
                          scope |-> Str("part"),
                          robot_part_id |-> l.robot_part_id]),
                  logged, l)

\* Geometries answering an empty list once the client is there.
GeometriesEmptyList(vc, e) ==
    IF vc # 0
    THEN Step("done", Return([geometries |-> <<>>]), <<>>, NoLocals)
    ELSE Step("done", Raise("NotImplementedError"),
              <<Event("logger.error", Absent, Absent)>>, NoLocals)

\* get_geometries: log, raise NotImplementedError.
Geometries(vc, e) ==
    Step("done", Raise("NotImplementedError"),
         <<Event("logger.error", Absent, Absent)>>, NoLocals)

\* What an exception does to a suspended call: each method's except clause.
Except(o, cmd, error, i, l) ==
    IF o = "get_readings" THEN ReadingsExcept(i, l) ELSE CommandExcept(cmd, error, i, l)

\* How a call goes on once it holds the client c.
WithClient(o, cmd, i, l, c) ==
    IF o = "get_readings" THEN ReadingsWithClient(i, l, c)
    ELSE CommandWithClient(cmd, i, l, c)

-----------------------------------------------------------------------------
(* Actions. *)

\* The awaited remote operation returned v / raised: its outcome, recorded
\* after the operation in the call's history.
Returned(i, v) == Append(i, Event("return", v, Absent))

Raised(i) == Append(i, Event("raise", Absent, Absent))

\* A call that has ended hands its outcome to the host in the same
\* uninterrupted run, before any other coroutine or the environment moves.
Quiet == \A t \in Tasks : pc[t] # "done"

\* The call read the credentials: it entered _get_viam_client with the handle unset.
Acquiring(i) == \E k \in DOMAIN i : i[k].method = "os.getenv"

Apply(t, s) ==
    /\ failed' = (failed \/ (s.pc = "done" /\ Acquiring(s.issued) /\ s.locals.viam_client = 0))
    /\ pc' = [pc EXCEPT ![t] = s.pc]
    /\ ret' = [ret EXCEPT ![t] = s.ret]
    /\ issued' = [issued EXCEPT ![t] = s.issued]
    /\ locals' = [locals EXCEPT ![t] = s.locals]

Begin(t, o, cmd) ==
    /\ pc[t] = "idle"
    /\ Quiet
    /\ op' = [op EXCEPT ![t] = o]
    /\ command' = [command EXCEPT ![t] = cmd]
    /\ configured' = [configured EXCEPT ![t] = [machine |-> env["VIAM_MACHINE_ID"],
                                                 part |-> env["VIAM_MACHINE_PART_ID"]]]
    /\ UNCHANGED <<env, viam_client, established>>

\* The host calls get_readings.
CallGetReadings(t) ==
    /\ Begin(t, "get_readings", NoCommand)
    /\ Apply(t, ReadingsStart(viam_client, env))

\* The host calls do_command(cmd).
CallDoCommand(t) ==
    \E cmd \in Commands :
        /\ Begin(t, "do_command", cmd)
        /\ Apply(t, CommandStart(cmd, viam_client, env))

\* The host calls get_geometries.
CallGetGeometries(t) ==
    /\ Begin(t, "get_geometries", NoCommand)
    /\ Apply(t, Geometries(viam_client, env))

\* create_from_dial_options returns a new connection: the assignment to
\* self._viam_client, then the call goes on with the client.
ConnectReturns(t) ==
    /\ pc[t] = "await_connect"
    /\ Quiet
    /\ established' = established + 1
    /\ viam_client' = established + 1
    /\ Apply(t, WithClient(op[t], command[t], Returned(issued[t], Absent), locals[t],
                            established + 1))
    /\ UNCHANGED <<env, op, command, configured>>

\* ConnectRaises with the handle assigned before the connection is up.
ConnectRaisesHandleSet(t) ==
    /\ pc[t] = "await_connect"
    /\ Quiet
    /\ viam_client' = established + 1
    /\ Apply(t, Except(op[t], command[t], <<"connect failed">>, Raised(issued[t]), locals[t]))
    /\ UNCHANGED <<env, established, op, command, configured>>

\* create_from_dial_options raises.
ConnectRaises(t) ==
    /\ pc[t] = "await_connect"
    /\ Quiet
    /\ Apply(t, Except(op[t], command[t], <<"connect failed">>, Raised(issued[t]), locals[t]))
    /\ UNCHANGED <<env, viam_client, established, op, command, configured>>

\* get_robot_metadata returns a document.
RobotFetchReturns(t) ==
    /\ pc[t] = "await_robot"
    /\ Quiet
    /\ \E doc \in Docs :
           Apply(t, ReadingsRobotFetched(Returned(issued[t], doc), locals[t], doc))
    /\ UNCHANGED <<env, viam_client, established, op, command, configured>>

\* get_robot_metadata raises.
RobotFetchRaises(t) ==
    /\ pc[t] = "await_robot"
    /\ Quiet
    /\ Apply(t, ReadingsExcept(Raised(issued[t]), locals[t]))
    /\ UNCHANGED <<env, viam_client, established, op, command, configured>>

\* get_robot_part_metadata returns a document.
PartFetchReturns(t) ==
    /\ pc[t] = "await_part"
    /\ Quiet
    /\ \E doc \in Docs :
           Apply(t, ReadingsPartFetched(Returned(issued[t], doc), locals[t], doc))
    /\ UNCHANGED <<env, viam_client, established, op, command, configured>>

\* get_robot_part_metadata raises.
PartFetchRaises(t) ==
    /\ pc[t] = "await_part"
    /\ Quiet
    /\ Apply(t, ReadingsExcept(Raised(issued[t]), locals[t]))
    /\ UNCHANGED <<env, viam_client, established, op, command, configured>>

\* update_robot_metadata / update_robot_part_metadata returns.
UpdateReturns(t) ==
    /\ pc[t] = "await_update"
    /\ Quiet
    /\ Apply(t, CommandUpdated(command[t], Returned(issued[t], Absent), locals[t]))
    /\ UNCHANGED <<env, viam_client, established, op, command, configured>>

\* update_robot_metadata / update_robot_part_metadata raises.
UpdateRaises(t) ==
    /\ pc[t] = "await_update"
    /\ Quiet
    /\ Apply(t, CommandExcept(command[t], <<"update failed">>, Raised(issued[t]), locals[t]))
    /\ UNCHANGED <<env, viam_client, established, op, command, configured>>

\* The host takes the call's outcome; the task is free for another call.
Deliver(t) ==
    /\ pc[t] = "done"
    /\ pc' = [pc EXCEPT ![t] = "idle"]
    /\ op' = [op EXCEPT ![t] = "none"]
    /\ command' = [command EXCEPT ![t] = NoCommand]
    /\ configured' = [configured EXCEPT ![t] = NoIds]
    /\ locals' = [locals EXCEPT ![t] = NoLocals]
    /\ issued' = [issued EXCEPT ![t] = <<>>]
    /\ ret' = [ret EXCEPT ![t] = NoRet]
    /\ UNCHANGED <<env, viam_client, established, failed>>

\* The process environment changes (a variable is set, emptied or unset).
SetEnv ==
    /\ Quiet
    /\ \E n \in EnvNames : \E v \in EnvValues(n) :
           /\ v # env[n]
           /\ env' = [env EXCEPT ![n] = v]
    /\ UNCHANGED <<viam_client, established, pc, op, command, configured, locals, issued, ret, failed>>

Next ==
    \/ SetEnv
    \/ \E t \in Tasks :
        \/ CallGetReadings(t)
        \/ CallDoCommand(t)
        \/ CallGetGeometries(t)
        \/ ConnectReturns(t)
        \/ ConnectRaises(t)
        \/ RobotFetchReturns(t)
        \/ RobotFetchRaises(t)
        \/ PartFetchReturns(t)
        \/ PartFetchRaises(t)
        \/ UpdateReturns(t)
        \/ UpdateRaises(t)
        \/ Deliver(t)

Spec == Init /\ [][Next]_vars

\* No call is running: a call made now overlaps no other.
NoOverlap == \A t \in Tasks : pc[t] = "idle"

\* The host makes its calls one after another.
SeqNext ==
    \/ SetEnv
    \/ \E t \in Tasks :
        \/ NoOverlap /\ CallGetReadings(t)
        \/ NoOverlap /\ CallDoCommand(t)
        \/ NoOverlap /\ CallGetGeometries(t)
        \/ ConnectReturns(t)
        \/ ConnectRaises(t)
        \/ RobotFetchReturns(t)
        \/ RobotFetchRaises(t)
        \/ PartFetchReturns(t)
        \/ PartFetchRaises(t)
        \/ UpdateReturns(t)
        \/ UpdateRaises(t)
        \/ Deliver(t)

SeqSpec == Init /\ [][SeqNext]_vars

-----------------------------------------------------------------------------
(* Vocabulary of the properties. *)

Done(t, o) == pc[t] = "done" /\ op[t] = o

FetchMethods == {"get_robot_metadata", "get_robot_part_metadata"}

UpdateMethods == {"update_robot_metadata", "update_robot_part_metadata"}

RemoteMethods == FetchMethods \cup UpdateMethods \cup {"create_from_dial_options"}

\* The positions of the history i that hold an operation of the set ms.
At(i, ms) == {k \in DOMAIN i : i[k].method \in ms}

\* A variable of the environment that is unset or empty.
Missing(v) == v = Absent \/ v = Str("")

EmptyReadings == [robot |-> Dict("{}"), part |-> Dict("{}")]

\* The history shows the fetch `method` answered with the document doc.
Fetched(i, method, doc) ==
    \E k \in DOMAIN i : /\ i[k].method = method
                        /\ k + 1 \in DOMAIN i
                        /\ i[k + 1] = Event("return", doc, Absent)

\* The text of the error a do_command result carries.
Says(t, text) == \E k \in DOMAIN ret[t].value.error : ret[t].value.error[k] = text

-----------------------------------------------------------------------------
\* C1: do_command never raises to its caller, whatever the command and
\* whatever the outcome of the client acquisition and of the update; a
\* command that is not a mapping gets a result with success = false and an
\* error containing "Command must be a dictionary".
C1_NeverRaises ==
    \A t \in Tasks :
        Done(t, "do_command") =>
            /\ ret[t].kind = "return"
            /\ ~IsDict(command[t]) =>
                  /\ ret[t].value.success = FALSE
                  /\ Says(t, "Command must be a dictionary")

-----------------------------------------------------------------------------
\* C2: get_readings always returns.  It returns exactly
\* {"robot": {}, "part": {}} when an identity variable is missing, the
\* client acquisition fails or a fetch raises (also when only the part fetch
\* raises), and the two fetched documents under "robot" and "part" when
\* both fetches answered.
C2_ReadingsNeverFail ==
    \A t \in Tasks :
        Done(t, "get_readings") =>
            /\ ret[t].kind = "return"
            /\ (Missing(configured[t].machine) \/ Missing(configured[t].part))
                  => ret[t].value = EmptyReadings
            /\ (\E k \in DOMAIN issued[t] : issued[t][k].method = "raise")
                  => ret[t].value = EmptyReadings
            /\ locals[t].viam_client = 0 => ret[t].value = EmptyReadings
            /\ \/ ret[t].value = EmptyReadings
               \/ /\ Fetched(issued[t], "get_robot_metadata", ret[t].value.robot)
                  /\ Fetched(issued[t], "get_robot_part_metadata", ret[t].value.part)
            /\ \A d1, d2 \in Docs :
                  (/\ Fetched(issued[t], "get_robot_metadata", d1)
                   /\ Fetched(issued[t], "get_robot_part_metadata", d2))
                  => ret[t].value = [robot |-> d1, part |-> d2]

\* A get_readings whose robot fetch answered with a document and whose part
\* fetch raised has returned.
C2_Witness ==
    \E t \in Tasks :
        /\ Done(t, "get_readings")
        /\ Fetched(issued[t], "get_robot_metadata", Dict("{'a': 1}"))
        /\ \E k \in DOMAIN issued[t] :
              /\ issued[t][k].method = "get_robot_part_metadata"
              /\ issued[t][k + 1].method = "raise"

-----------------------------------------------------------------------------
\* A call starts / ends in the step.
Starts(t) == pc[t] = "idle" /\ pc'[t] # "idle"

Ends(t) == pc[t] # "done" /\ pc'[t] = "done"

CredentialMethods == {"os.getenv", "create_from_dial_options"}

\* C3: when the calls do not overlap, connection establishment happens at
\* most once: once the handle is set it stays what it is, no further
\* connection is established, and a call starting then reads no credentials
\* and starts no connection, whatever the environment holds by then.
C3_ConnectOnce ==
    [][ /\ established' <= 1
        /\ viam_client # 0 =>
              /\ viam_client' = viam_client
              /\ established' = established
              /\ \A t \in Tasks :
                    Starts(t) => At(issued'[t], CredentialMethods) = {} ]_vars

\* A get_readings that went straight to the fetches with the memoized client
\* and got both documents, while VIAM_API_KEY is unset.
C3_Witness ==
    \E t \in Tasks :
        /\ Done(t, "get_readings")
        /\ env["VIAM_API_KEY"] = Absent
        /\ viam_client = 1
        /\ locals[t].viam_client = 1
        /\ issued[t][1].method = "get_robot_metadata"
        /\ ret[t].value # EmptyReadings

-----------------------------------------------------------------------------
\* C4: at most one client connection exists per resource instance at any
\* time, in every interleaving of concurrent calls.
C4_AtMostOneConnection == established <= 1

-----------------------------------------------------------------------------
WellFormed(cmd) ==
    /\ IsDict(cmd)
    /\ cmd.command = Str("update")
    /\ cmd.scope \in {Str("part"), Str("robot")}
    /\ IsDict(cmd.metadata)

\* The call got a client and no remote operation of it raised.
Accepted(t) ==
    /\ locals[t].viam_client # 0
    /\ \A k \in DOMAIN issued[t] : issued[t][k].method # "raise"

\* C5: a well-formed command with both identity variables set and a remote
\* that accepts the update issues exactly one update, the one of its scope,
\* with the configured id of that scope and the given metadata, and returns
\* success = true with the scope and that id.
C5_UpdateByScope ==
    \A t \in Tasks :
        (/\ Done(t, "do_command")
         /\ WellFormed(command[t])
         /\ ~Missing(configured[t].machine)
         /\ ~Missing(configured[t].part)
         /\ Accepted(t))
        => LET u == At(issued[t], UpdateMethods)
               v == ret[t].value
           IN  /\ Cardinality(u) = 1
               /\ ret[t].kind = "return"
               /\ v.success = TRUE
               /\ v.scope = command[t].scope
               /\ command[t].scope = Str("part") =>
                     /\ \A k \in u : issued[t][k] =
                           Event("update_robot_part_metadata", configured[t].part,
                                 command[t].metadata)
                     /\ v.robot_part_id = configured[t].part
               /\ command[t].scope = Str("robot") =>
                     /\ \A k \in u : issued[t][k] =
                           Event("update_robot_metadata", configured[t].machine,
                                 command[t].metadata)
                     /\ v.robot_id = configured[t].machine

\* An accepted update of the part's metadata has returned.
C5_Witness ==
    \E t \in Tasks :
        /\ Done(t, "do_command")
        /\ command[t].scope = Str("part")
        /\ command[t].metadata = Dict("{'a': 1}")
        /\ Accepted(t)
        /\ ret[t].value.success = TRUE

-----------------------------------------------------------------------------
\* The step is a call's client acquisition failing.
AcquisitionFails(t) ==
    /\ Ends(t)
    /\ Acquiring(issued'[t])
    /\ locals'[t].viam_client = 0

\* The call starting in the step gets as far as the client acquisition.
ReachesAcquisition(t) ==
    /\ Starts(t)
    /\ ~Missing(env["VIAM_MACHINE_ID"])
    /\ ~Missing(env["VIAM_MACHINE_PART_ID"])
    /\ \/ op'[t] = "get_readings"
       \/ op'[t] = "do_command" /\ WellFormed(command'[t])

-----------------------------------------------------------------------------
\* C7: get_geometries always signals not-implemented and never returns a
\* value, whatever the client handle and the environment.
C7_GeometriesNotImplemented ==
    \A t \in Tasks :
        op[t] = "get_geometries" =>
            /\ pc[t] = "done"
            /\ ret[t].kind = "raise"
            /\ ret[t].exc = "NotImplementedError"

\* get_geometries was called with the client handle set and the environment complete.
C7_Witness ==
    \E t \in Tasks :
        /\ Done(t, "get_geometries")
        /\ viam_client # 0
        /\ \A n \in EnvNames : ~Missing(env[n])

-----------------------------------------------------------------------------
Prefix == "Error updating metadata: "

\* The do_command of task t failed with exactly this error.
FailsWith(t, error) ==
    /\ ret[t].kind = "return"
    /\ ret[t].value.success = FALSE
    /\ ret[t].value.error = <<Prefix>> \o error

ValidationTexts ==
    {"Unsupported command: ", "Invalid scope: ", "metadata must be a dictionary",
     "VIAM_MACHINE_ID environment variable is required",
     "VIAM_MACHINE_PART_ID environment variable is required"}

\* C8: a mapping command is validated in the order command name, scope,
\* metadata shape, VIAM_MACHINE_ID, VIAM_MACHINE_PART_ID, and the failure
\* reports the first violation only; a missing identity variable is
\* reported only for a command of valid shape, and both variables are
\* required whatever the scope.
C8_FirstViolationOnly ==
    \A t \in Tasks :
        (Done(t, "do_command") /\ IsDict(command[t])) =>
            LET c == command[t]
                name == IF c.command = Absent THEN "None" ELSE c.command.val
                scope == IF c.scope = Absent THEN "None" ELSE c.scope.val
            IN  IF c.command # Str("update")
                THEN FailsWith(t, <<"Unsupported command: ", name, ". Only 'update' is supported.">>)
                ELSE IF c.scope \notin {Str("part"), Str("robot")}
                THEN FailsWith(t, <<"Invalid scope: ", scope, ". Must be 'part' or 'robot'.">>)
                ELSE IF ~IsDict(c.metadata)
                THEN FailsWith(t, <<"metadata must be a dictionary">>)
                ELSE IF Missing(configured[t].machine)
                THEN FailsWith(t, <<"VIAM_MACHINE_ID environment variable is required">>)
                ELSE IF Missing(configured[t].part)
                THEN FailsWith(t, <<"VIAM_MACHINE_PART_ID environment variable is required">>)
                ELSE ret[t].kind = "return"
                     /\ (ret[t].value.success = FALSE =>
                            \A x \in ValidationTexts : ~Says(t, x))

\* A command wrong in its name, its scope and its metadata, sent while both
\* identity variables are missing, has been answered.
C8_Witness ==
    \E t \in Tasks :
        /\ Done(t, "do_command")
        /\ command[t] = [type |-> "dict", command |-> Str("delete"),
                         scope |-> Str("machine"), metadata |-> Str("text")]
        /\ Missing(configured[t].machine)
        /\ Missing(configured[t].part)
        /\ Says(t, "Unsupported command: ")

-----------------------------------------------------------------------------
\* C9: in a get_readings call the part metadata fetch is started only right
\* after the robot metadata fetch has returned: never before it, never
\* while it is pending, never after it raised.
C9_FetchesInSequence ==
    \A t \in Tasks :
        op[t] = "get_readings" =>
            /\ \A k \in At(issued[t], {"get_robot_part_metadata"}) :
                  /\ k >= 3
                  /\ issued[t][k - 2].method = "get_robot_metadata"
                  /\ issued[t][k - 1].method = "return"
            /\ Cardinality(At(issued[t], {"get_robot_metadata"})) <= 1
            /\ Cardinality(At(issued[t], {"get_robot_part_metadata"})) <= 1
            /\ pc[t] = "await_robot" => At(issued[t], {"get_robot_part_metadata"}) = {}
            /\ pc[t] = "await_part" => At(issued[t], {"get_robot_part_metadata"}) # {}

\* A get_readings whose robot fetch returned is waiting for the part fetch.
C9_Witness ==
    \E t \in Tasks :
        /\ op[t] = "get_readings"
        /\ pc[t] = "await_part"
        /\ locals[t].robot_metadata = Dict("{'a': 1}")

-----------------------------------------------------------------------------
\* The call starting in the step fails a validation.
Rejected(t) ==
    /\ Starts(t)
    /\ \/ /\ op'[t] = "do_command"
          /\ IsDict(command'[t])
          /\ \/ ~WellFormed(command'[t])
             \/ Missing(env["VIAM_MACHINE_ID"])
             \/ Missing(env["VIAM_MACHINE_PART_ID"])
       \/ /\ op'[t] = "get_readings"
          /\ \/ Missing(env["VIAM_MACHINE_ID"])
             \/ Missing(env["VIAM_MACHINE_PART_ID"])

\* C10: a do_command that fails a validation and a get_readings with a
\* missing identity variable end at once, leave the client handle as it was,
\* establish no connection and start no remote operation; and no
\* get_readings ever starts a remote update.
C10_RejectedHasNoEffect ==
    [][ \A t \in Tasks :
          /\ Rejected(t) =>
                /\ pc'[t] = "done"
                /\ viam_client' = viam_client
                /\ established' = established
                /\ At(issued'[t], RemoteMethods \cup CredentialMethods) = {}
          /\ op'[t] = "get_readings" => At(issued'[t], UpdateMethods) = {} ]_vars

\* A do_command rejected for its scope has been answered while the handle
\* is unset and the credentials are there.
C10_Witness ==
    \E t \in Tasks :
        /\ Done(t, "do_command")
        /\ command[t].command = Str("update")
        /\ command[t].scope = Str("machine")
        /\ viam_client = 0
        /\ ~Missing(env["VIAM_API_KEY"])
        /\ ~Missing(env["VIAM_API_KEY_ID"])
        /\ ~Missing(configured[t].machine)
        /\ ~Missing(configured[t].part)

====
